---- MODULE Spec2Model ----
(***************************************************************************)
(* A model of the chatbot back end (server.js) and of its ingestion        *)
(* script (scripts/generateEmbeddings.js).                                 *)
(*                                                                         *)
(* Strings are TLA+ strings; TLC evaluates Len, SubSeq and \o on them, so  *)
(* toLowerCase, includes, startsWith, split and the template literals of   *)
(* the source are computed character by character.                         *)
(*                                                                         *)
(* The module holds six specifications over one set of variables:          *)
(*   SpecRetrieval  AISearchEngine.findRelevantContext on a loaded corpus  *)
(*   SpecQuery      the same call: query reformulation and name resolver   *)
(*   Spec           the POST /api/chat handler and the session map         *)
(*   SpecComplete   one chat request: ensureCompleteResponse on any reply  *)
(*   SpecLoad       AISearchEngine.initialize, app.listen and one request  *)
(*   SpecIngest     DocumentProcessor.generateEmbeddings / saveEmbeddings  *)
(***************************************************************************)
EXTENDS Integers, Sequences, FiniteSets, TLC

VARIABLES
    \* ---- AISearchEngine fields (server.js 269-275)
    embeddings,       \* this.embeddings: sequence of vectors
    texts,            \* this.texts: sequence of strings
    chunkMetadata,    \* this.chunkMetadata: sequence of [source, page]
    metadata,         \* this.metadata: the Map, as the sequence of its records
                      \* in insertion order; the key of record i is ToString(i)
    \* ---- one call of findRelevantContext (server.js 335-430)
    rpc,              \* position of the call: idle, A, rankedA, B, rankedB, C,
                      \* rankedC, done
    question,         \* argument question
    history,          \* argument history
    contextualQuery,  \* local contextualQuery
    names,            \* local names (the resolver's matches)
    matchIdx,         \* Branch A: index in names of the match being processed
    contexts,         \* Branch A: local contexts
    embedCalls,       \* number of getEmbedding calls made by this call
    embedLog,         \* the getEmbedding calls of this call that have settled:
                      \* [input, ok, vector], in order
    similarContent,   \* local similarContent of Branch B / Branch C
    branch,           \* the return statement that produced the result
    result,           \* what the call returned or threw
    \* ---- the POST /api/chat handler (server.js 505-627)
    sessions,         \* the sessions Map: session id -> history (absent: <<>>)
    chatLog,          \* the rows of chat_messages, in insertion order
    cpc,              \* position of each request in the handler
    body,             \* req.body of each request: [question, sessionId]
    sessionHistory,   \* local sessionHistory of each request
    response,         \* local response of each request
    writers,          \* per session id, the requests that called sessions.set,
                      \* in the order of their calls
    readSeen,         \* per request, Len(writers[sessionId]) when it read
    completion,       \* per request, completion.choices[0].message.content
    \* ---- start-up (server.js 502-503, 656-660)
    embeddingsFile,   \* embeddings.json on disk
    metadataFile,     \* metadata.csv on disk
    undefinedFields,  \* engine fields that hold undefined
    initStatus,       \* the promise of initialize: pending, resolved, rejected
    listening,        \* app.listen was called
    \* ---- the ingestion script (scripts/generateEmbeddings.js 119-169)
    chunks,           \* the chunks handed to generateEmbeddings
    embedFails,       \* the chunks (by position) whose embedding request the
                      \* provider rejects
    gpc,              \* position of the script: loop, awaitAll, delay, save, done
    batchStart,       \* the loop variable i
    inFlight,         \* embedding requests issued and not yet settled
    generated,        \* local embeddings of generateEmbeddings
    written           \* what saveEmbeddings wrote to embeddings.json

engineVars == <<embeddings, texts, chunkMetadata, metadata>>
callVars == <<rpc, question, history, contextualQuery, names, matchIdx,
              contexts, embedCalls, embedLog, similarContent, branch, result>>
chatVars == <<sessions, chatLog, cpc, body, sessionHistory, response, writers,
              readSeen, completion>>
loadVars == <<embeddingsFile, metadataFile, undefinedFields, initStatus, listening>>
ingestVars == <<chunks, embedFails, gpc, batchStart, inFlight, generated, written>>
vars == <<engineVars, callVars, chatVars, loadVars, ingestVars>>

-----------------------------------------------------------------------------
(* Bounds of the model.                                                    *)

MaxChunks == 6        \* chunks in a loaded corpus: 0..MaxChunks
MaxRequests == 2      \* chat requests in flight or finished
MaxSessions == 2      \* session ids in use
MaxArrayLen == 2      \* length of each array of an embeddings.json on disk
MaxIngestChunks == 22 \* chunks handed to generateEmbeddings: 0..MaxIngestChunks
MaxFailures == 2      \* embedding requests the provider rejects in one run
MaxRecords == 3       \* rows of metadata.csv: 0..MaxRecords
NumPatterns == 3      \* embedding layouts tried for each corpus
MaxRegistry == 3      \* rows of the registry in the query specification
MaxTextLen == 5       \* characters of a completion text drawn from TextChars

-----------------------------------------------------------------------------
(* JavaScript string functions used by the source.                         *)

CharAt(s, i) == SubSeq(s, i, i)

\* The characters of s at positions a..b, as far as s has them.
substr(s, a, b) ==
    IF a > b \/ a > Len(s) THEN ""
    ELSE SubSeq(s, a, IF b > Len(s) THEN Len(s) ELSE b)

\* The lower-case letter of each upper-case letter.
LowerOf ==
    [c \in {"A", "B", "C", "D", "E", "F", "G", "H", "I", "J", "K", "L", "M", "N",
             "O", "P", "Q", "R", "S", "T", "U", "V", "W", "X", "Y", "Z"} |->
        CASE c = "A" -> "a" [] c = "B" -> "b" [] c = "C" -> "c" [] c = "D" -> "d"
          [] c = "E" -> "e" [] c = "F" -> "f" [] c = "G" -> "g" [] c = "H" -> "h"
          [] c = "I" -> "i" [] c = "J" -> "j" [] c = "K" -> "k" [] c = "L" -> "l"
          [] c = "M" -> "m" [] c = "N" -> "n" [] c = "O" -> "o" [] c = "P" -> "p"
          [] c = "Q" -> "q" [] c = "R" -> "r" [] c = "S" -> "s" [] c = "T" -> "t"
          [] c = "U" -> "u" [] c = "V" -> "v" [] c = "W" -> "w" [] c = "X" -> "x"
          [] c = "Y" -> "y" [] c = "Z" -> "z"]

LowerChar(c) == IF c \in DOMAIN LowerOf THEN LowerOf[c] ELSE c

\* The characters of s at positions i..j, each in lower case.
RECURSIVE lowerRange(_, _, _)
lowerRange(s, i, j) ==
    IF i > j THEN ""
    ELSE IF i = j THEN LowerChar(CharAt(s, i))
    ELSE LET mid == (i + j) \div 2
         IN  lowerRange(s, i, mid) \o lowerRange(s, mid + 1, j)

toLowerCase(s) == lowerRange(s, 1, Len(s))

\* String.prototype.includes: the empty string is included in every string.
includes(s, sub) ==
    \E i \in 1..(Len(s) - Len(sub) + 1) : SubSeq(s, i, i + Len(sub) - 1) = sub

startsWith(s, p) == Len(s) >= Len(p) /\ SubSeq(s, 1, Len(p)) = p

\* s.split(' '): the pieces between single spaces, empty pieces kept.
RECURSIVE splitFrom(_, _, _)
splitFrom(s, i, cur) ==
    IF i > Len(s) THEN <<cur>>
    ELSE IF CharAt(s, i) = " " THEN <<cur>> \o splitFrom(s, i + 1, "")
    ELSE splitFrom(s, i + 1, cur \o CharAt(s, i))

split(s) == splitFrom(s, 1, "")

\* Array.prototype.join on an array of strings.
RECURSIVE join(_, _)
join(parts, sep) ==
    IF Len(parts) = 0 THEN ""
    ELSE IF Len(parts) = 1 THEN parts[1]
    ELSE parts[1] \o sep \o join(Tail(parts), sep)

\* A slice that keeps the whole array.
sliceWhole(seq, k) == seq

\* Array.prototype.slice(-k): the last k elements (all when there are fewer).
sliceLast(seq, k) ==
    IF Len(seq) <= k THEN seq ELSE SubSeq(seq, Len(seq) - k + 1, Len(seq))

\* Array.prototype.slice(0, k).
sliceFirst(seq, k) == IF Len(seq) <= k THEN seq ELSE SubSeq(seq, 1, k)

IsDigit(c) == c \in {"0", "1", "2", "3", "4", "5", "6", "7", "8", "9"}

RECURSIVE parseNat(_)
parseNat(s) ==
    IF s = "" THEN 0
    ELSE 10 * parseNat(SubSeq(s, 1, Len(s) - 1))
         + (CHOOSE d \in 0..9 : ToString(d) = CharAt(s, Len(s)))

-----------------------------------------------------------------------------
(* AISearchEngine: entity resolver and similarity ranker.                  *)

TopK == 5

\* Does the record match the lowercased question (server.js 317-330)?
nameMatches(normalizedQuestion, record) ==
    LET normalizedName == toLowerCase(record.name)
        nameParts == split(normalizedName)
    IN  \/ includes(normalizedQuestion, normalizedName)
        \/ \E k \in 1..Len(nameParts) :
              /\ Len(nameParts[k]) > 2
              /\ includes(normalizedQuestion, toLowerCase(nameParts[k]))

RECURSIVE matchesFrom(_, _)
matchesFrom(normalizedQuestion, i) ==
    IF i > Len(metadata) THEN <<>>
    ELSE (IF nameMatches(normalizedQuestion, metadata[i])
          THEN <<[id |-> ToString(i), record |-> metadata[i]]>>
          ELSE <<>>)
         \o matchesFrom(normalizedQuestion, i + 1)

findAllNamesInQuestion(q) == matchesFrom(toLowerCase(q), 1)

RECURSIVE dot(_, _, _)
dot(vecA, vecB, i) ==
    IF i > Len(vecA) THEN 0 ELSE vecA[i] * vecB[i] + dot(vecA, vecB, i + 1)

\* Math.sqrt on the squared norms the model uses, which are perfect squares,
\* so that the floating-point root is exact.
sqrt(n) == CHOOSE r \in 0..n : r * r = n

\* cosineSimilarity: the quotient dotProduct / (normA * normB), kept as the
\* fraction n / d.  Both norms being integers, the double the source computes
\* is the correctly rounded value of this fraction, so two scores compare as
\* the fractions do.  With a zero vector the source computes 0 / 0, which is
\* NaN: the fraction is then 0 / 0.
cosineSimilarity(vecA, vecB) ==
    [n |-> dot(vecA, vecB, 1),
     d |-> sqrt(dot(vecA, vecA, 1)) * sqrt(dot(vecB, vecB, 1))]

\* b.score - a.score > 0 (false when a score is NaN)
scoreLess(a, b) == a.n * b.d < b.n * a.d

\* Number.isNaN(score)
isNaN(score) == score.d = 0

\* The comparator (a, b) => b.score - a.score as Array.prototype.sort reads
\* it: its sign, and 0 when the difference is NaN.
compareByScore(a, b) ==
    IF isNaN(a.score) \/ isNaN(b.score) THEN 0
    ELSE IF scoreLess(a.score, b.score) THEN 1
    ELSE IF scoreLess(b.score, a.score) THEN -1
    ELSE 0

Undefined == [defined |-> FALSE, source |-> "undefined", page |-> "undefined"]

textAt(idx) == IF idx <= Len(texts) THEN texts[idx] ELSE "undefined"
metadataAt(idx) == IF idx <= Len(chunkMetadata) THEN chunkMetadata[idx] ELSE Undefined

\* Array.prototype.sort with the comparator (a, b) => b.score - a.score, as
\* V8 (Node.js) sorts an array of fewer than 64 elements: the run that starts
\* the array is found and, when it descends strictly, reversed; the other
\* elements are then inserted one by one at the place a binary search gives.
\* With a consistent comparator this is the stable sort of ECMAScript 2019;
\* with NaN scores the comparator is not consistent, the order is left to
\* the implementation, and this is the order V8 gives.
sortByScore(items) ==
    LET descends == Len(items) >= 2 /\ compareByScore(items[2], items[1]) < 0
        \* the length of the run that starts the array, idx being the next
        \* position to look at
        RECURSIVE runLengthFrom(_)
        runLengthFrom(idx) ==
            IF idx > Len(items) THEN Len(items)
            ELSE LET order == compareByScore(items[idx], items[idx - 1])
                 IN  IF (descends /\ order >= 0) \/ (~descends /\ order < 0)
                     THEN idx - 1
                     ELSE runLengthFrom(idx + 1)
        runLength == IF Len(items) < 2 THEN Len(items) ELSE runLengthFrom(3)
        firstRun == IF descends
                    THEN [i \in 1..runLength |-> items[runLength + 1 - i]]
                    ELSE SubSeq(items, 1, runLength)
        \* the place (0-based) of x among sorted[left + 1 .. right]
        RECURSIVE search(_, _, _, _)
        search(sorted, x, left, right) ==
            IF left >= right THEN left
            ELSE LET mid == left + ((right - left) \div 2)
                 IN  IF compareByScore(x, sorted[mid + 1]) < 0
                     THEN search(sorted, x, left, mid)
                     ELSE search(sorted, x, mid + 1, right)
        RECURSIVE insertFrom(_, _)
        insertFrom(sorted, idx) ==
            IF idx > Len(items) THEN sorted
            ELSE LET at == search(sorted, items[idx], 0, Len(sorted))
                 IN  insertFrom(SubSeq(sorted, 1, at) \o <<items[idx]>>
                                   \o SubSeq(sorted, at + 1, Len(sorted)),
                                idx + 1)
    IN  insertFrom(firstRun, runLength + 1)

RECURSIVE filterSource(_, _)
filterSource(items, sourceName) ==
    IF Len(items) = 0 THEN <<>>
    ELSE (IF Head(items).metadata.defined /\ Head(items).metadata.source = sourceName
          THEN <<Head(items)>> ELSE <<>>)
         \o filterSource(Tail(items), sourceName)

\* findSimilarContent(queryEmbedding, sourceName); sourceName "" stands for
\* null (both are falsy in `if (sourceName)`).
findSimilarContent(queryEmbedding, sourceName) ==
    LET similarities ==
            [idx \in 1..Len(embeddings) |->
                [score |-> cosineSimilarity(queryEmbedding, embeddings[idx]),
                 text |-> textAt(idx),
                 metadata |-> metadataAt(idx)]]
        results == IF sourceName # "" THEN filterSource(similarities, sourceName)
                   ELSE similarities
    IN  sliceFirst(sortByScore(results), TopK)
-----------------------------------------------------------------------------
(* AISearchEngine.findRelevantContext: reformulation, branch choice and    *)
(* formatting.                                                             *)

FoldLimit == 60

contentsOf(turns) == [i \in 1..Len(turns) |-> turns[i].content]

\* server.js 340-343: is the history folded into the query?
foldsHistory(q) ==
    LET lower == toLowerCase(q)
    IN  \/ Len(q) < FoldLimit
        \/ startsWith(lower, "why")
        \/ startsWith(lower, "how")
        \/ ~includes(q, "?")

\* server.js 337-349
contextualQueryOf(q, h) ==
    IF foldsHistory(q)
    THEN join(contentsOf(sliceLast(h, 4)), " ") \o " " \o q
    ELSE q

\* server.js 351-352
isComparativeQuery(cq) ==
    LET lower == toLowerCase(cq)
    IN  includes(lower, "between") \/ includes(lower, "compare")

\* A condition that a comparative query satisfies whatever its matches.
entersBranchAIfComparative(cq, nm) == isComparativeQuery(cq) \/ Len(nm) >= 2

\* server.js 356
entersBranchA(cq, nm) == (isComparativeQuery(cq) \/ Len(nm) > 1) /\ Len(nm) >= 2

documentNameOf(id) == "document" \o id \o ".pdf"

header(id, name, date) == "Interview " \o id \o " with " \o name \o " (" \o date \o "):\n"

pageLine(page, text) == "[Page " \o page \o "] " \o text

\* server.js 364-373: the object pushed on contexts
contextOf(match, sc) ==
    [interviewId |-> match.id,
     interviewee |-> match.record.name,
     date |-> match.record.date,
     content |-> [i \in 1..Len(sc) |->
                     [text |-> sc[i].text, page |-> sc[i].metadata.page,
                      score |-> sc[i].score]]]

\* A formatter of Branch A that repeats the header before every line.
formatContextsHeaderPerChunk(ctxs) ==
    join([k \in 1..Len(ctxs) |->
              join([i \in 1..Len(ctxs[k].content) |->
                       header(ctxs[k].interviewId, ctxs[k].interviewee, ctxs[k].date)
                       \o pageLine(ctxs[k].content[i].page, ctxs[k].content[i].text)],
                   "\n\n")],
         "\n\n---\n\n")

\* server.js 377-381: Branch A's formatter
formatContexts(ctxs) ==
    join([k \in 1..Len(ctxs) |->
              header(ctxs[k].interviewId, ctxs[k].interviewee, ctxs[k].date)
              \o join([i \in 1..Len(ctxs[k].content) |->
                          pageLine(ctxs[k].content[i].page, ctxs[k].content[i].text)],
                      "\n\n")],
         "\n\n---\n\n")

\* A formatter that writes the header once, before the lines.
formatChunksOneHeader(id, record, items) ==
    header(id, record.name, record.date)
    \o join([i \in 1..Len(items) |-> pageLine(items[i].metadata.page, items[i].text)],
            "\n\n")

\* server.js 394-396 and 420-422: the formatter of Branch B and of Branch C
formatChunks(id, record, items) ==
    join([i \in 1..Len(items) |->
              header(id, record.name, record.date)
              \o pageLine(items[i].metadata.page, items[i].text)],
         "\n\n")

\* server.js 403-410: groupedResults, as the sequence of its [source, items]
\* entries in the order the keys were created.
\* The property names that the object literal {} inherits from
\* Object.prototype: groupedResults[name] is a function or an object, never
\* undefined, before anything is stored under the name.
InheritedKeys ==
    {"constructor", "hasOwnProperty", "isPrototypeOf", "propertyIsEnumerable",
     "toLocaleString", "toString", "valueOf", "__proto__", "__defineGetter__",
     "__defineSetter__", "__lookupGetter__", "__lookupSetter__"}

\* server.js 403-410: the groups in the order of their creation.  For a
\* source in InheritedKeys the test of 406 creates no array and push (409)
\* is not a function: the forEach throws (threw), with the groups made so far.
RECURSIVE groupBySource(_, _)
groupBySource(items, acc) ==
    IF Len(items) = 0 THEN [threw |-> FALSE, groups |-> acc]
    ELSE LET it == Head(items)
             src == it.metadata.source
             pos == {k \in 1..Len(acc) : acc[k].source = src}
         IN  IF src \in InheritedKeys THEN [threw |-> TRUE, groups |-> acc]
             ELSE IF pos = {}
             THEN groupBySource(Tail(items),
                                Append(acc, [source |-> src, items |-> <<it>>]))
             ELSE LET k == CHOOSE j \in pos : TRUE
                  IN  groupBySource(Tail(items),
                        [acc EXCEPT ![k].items = Append(@, it)])

digitOf(c) == CHOOSE d \in 0..9 : ToString(d) = c

\* a < b for two strings of digits of the same length, read as numbers.
decimalLess(a, b) ==
    \E i \in 1..Len(a) :
        /\ SubSeq(a, 1, i - 1) = SubSeq(b, 1, i - 1)
        /\ digitOf(CharAt(a, i)) < digitOf(CharAt(b, i))

\* The largest array index, 2^32 - 2.
MaxIndexKey == "4294967294"

\* A property key that is a canonical array index ("0", "7", "12", ...,
\* "4294967294"): such keys come first, in ascending numeric order, in
\* Object.entries.
isIndexKey(key) ==
    /\ Len(key) > 0
    /\ \A i \in 1..Len(key) : IsDigit(CharAt(key, i))
    /\ (Len(key) > 1 => CharAt(key, 1) # "0")
    /\ \/ Len(key) < Len(MaxIndexKey)
       \/ Len(key) = Len(MaxIndexKey) /\ ~decimalLess(MaxIndexKey, key)

\* a < b for two array indices, read as numbers.
indexKeyLess(a, b) ==
    \/ Len(a) < Len(b)
    \/ Len(a) = Len(b) /\ decimalLess(a, b)

RECURSIVE insertIndexKey(_, _)
insertIndexKey(sorted, e) ==
    IF Len(sorted) = 0 THEN <<e>>
    ELSE IF indexKeyLess(e.source, Head(sorted).source) THEN <<e>> \o sorted
    ELSE <<Head(sorted)>> \o insertIndexKey(Tail(sorted), e)

RECURSIVE indexKeyed(_)
indexKeyed(groups) ==
    IF Len(groups) = 0 THEN <<>>
    ELSE LET rest == indexKeyed(SubSeq(groups, 1, Len(groups) - 1))
             e == groups[Len(groups)]
         IN  IF isIndexKey(e.source) THEN insertIndexKey(rest, e) ELSE rest

RECURSIVE stringKeyed(_)
stringKeyed(groups) ==
    IF Len(groups) = 0 THEN <<>>
    ELSE (IF isIndexKey(Head(groups).source) THEN <<>> ELSE <<Head(groups)>>)
         \o stringKeyed(Tail(groups))

\* Object.entries(groupedResults)
objectEntries(groups) == indexKeyed(groups) \o stringKeyed(groups)

\* Array.prototype.sort with (a, b) => b[1].length - a[1].length (stable).
RECURSIVE insertBySize(_, _)
insertBySize(sorted, e) ==
    IF Len(sorted) = 0 THEN <<e>>
    ELSE IF Len(Head(sorted).items) < Len(e.items) THEN <<e>> \o sorted
    ELSE <<Head(sorted)>> \o insertBySize(Tail(sorted), e)

RECURSIVE sortBySize(_)
sortBySize(entries) ==
    IF Len(entries) = 0 THEN <<>>
    ELSE insertBySize(sortBySize(SubSeq(entries, 1, Len(entries) - 1)),
                      entries[Len(entries)])

\* A selection in which, among the largest groups, the last one wins.
bestSourceLastTie(groups) ==
    LET entries == objectEntries(groups)
        largest == {k \in 1..Len(entries) :
                      \A j \in 1..Len(entries) :
                          Len(entries[j].items) <= Len(entries[k].items)}
    IN  entries[CHOOSE k \in largest : \A j \in largest : j <= k]

\* server.js 413-414
bestSourceOf(groups) == sortBySize(objectEntries(groups))[1]

\* source.match(/document(\d+)\.pdf/): the leftmost "document", a maximal run
\* of one or more digits, ".pdf".  [found, id].
digitRun(s, from) ==
    LET ends == {j \in from..Len(s) :
                    \A i \in from..j : IsDigit(CharAt(s, i))}
    IN  IF ends = {} THEN 0 ELSE (CHOOSE j \in ends : \A e \in ends : e <= j) - from + 1

matchDocument(source) ==
    LET starts == {i \in 1..Len(source) :
                     /\ substr(source, i, i + 7) = "document"
                     /\ digitRun(source, i + 8) >= 1
                     /\ LET n == digitRun(source, i + 8)
                        IN  substr(source, i + 8 + n, i + 11 + n) = ".pdf"}
    IN  IF starts = {} THEN [found |-> FALSE, id |-> ""]
        ELSE LET i == CHOOSE a \in starts : \A b \in starts : a <= b
             IN  [found |-> TRUE,
                  id |-> SubSeq(source, i + 8, i + 7 + digitRun(source, i + 8))]

\* this.metadata.get(documentId): the index of the record, 0 for undefined
metadataGet(documentId) ==
    LET hit == {i \in 1..Len(metadata) : ToString(i) = documentId}
    IN  IF hit = {} THEN 0 ELSE CHOOSE i \in hit : TRUE

Returned(str) == [kind |-> "string", value |-> str]
ReturnedNull == [kind |-> "null", value |-> ""]
Thrown(err) == [kind |-> "throw", value |-> err]
NoResult == [kind |-> "none", value |-> ""]
-----------------------------------------------------------------------------
(* ensureCompleteResponse (server.js 467-492).                             *)

\* The number of "." characters that end the text.
RECURSIVE trailingPeriods(_)
trailingPeriods(text) ==
    IF text = "" \/ CharAt(text, Len(text)) # "." THEN 0
    ELSE 1 + trailingPeriods(SubSeq(text, 1, Len(text) - 1))

\* text.replace(/\.{3,}$/, '')
stripEllipsis(text) ==
    IF trailingPeriods(text) >= 3
    THEN SubSeq(text, 1, Len(text) - trailingPeriods(text))
    ELSE text

endsWith(text, c) == Len(text) >= Len(c) /\ SubSeq(text, Len(text) - Len(c) + 1, Len(text)) = c

\* text.lastIndexOf(c) for a one-character c, counted from 0; -1 when absent
lastIndexOf(text, c) ==
    LET at == {i \in 1..Len(text) : CharAt(text, i) = c}
    IN  IF at = {} THEN -1 ELSE (CHOOSE i \in at : \A j \in at : j <= i) - 1

\* The texts of this module are ASCII texts.  Of the 25 code points that
\* String.prototype.trim removes (the white space and line terminators of
\* ECMAScript), these are the six ASCII ones: space, line feed, tab, carriage
\* return, form feed and vertical tab.  The 19 others (U+00A0, U+1680, U+2000
\* to U+200A, U+2028, U+2029, U+202F, U+205F, U+3000 and U+FEFF) are outside
\* the model: on a text that holds one of them, trimStart, trimEnd, trim and
\* ensureCompleteResponse say nothing about the code.
IsSpace(c) == c \in {" ", "\n", "\t", "\r", "\f", ""}

RECURSIVE trimStart(_)
trimStart(text) ==
    IF text # "" /\ IsSpace(CharAt(text, 1)) THEN trimStart(SubSeq(text, 2, Len(text)))
    ELSE text

RECURSIVE trimEnd(_)
trimEnd(text) ==
    IF text # "" /\ IsSpace(CharAt(text, Len(text)))
    THEN trimEnd(SubSeq(text, 1, Len(text) - 1))
    ELSE text

trim(text) == trimEnd(trimStart(text))

maxOf(a, b) == IF a >= b THEN a ELSE b

ensureCompleteResponse(text0) ==
    LET text == stripEllipsis(text0)
        lastCompleteIndex ==
            maxOf(maxOf(lastIndexOf(text, "."), lastIndexOf(text, "!")),
                  lastIndexOf(text, "?"))
    IN  IF endsWith(text, ".") \/ endsWith(text, "!") \/ endsWith(text, "?")
        THEN text
        ELSE IF lastCompleteIndex # -1 THEN SubSeq(text, 1, lastCompleteIndex + 1)
        ELSE IF Len(trim(text)) > 0 THEN trim(text) \o "."
        ELSE text

-----------------------------------------------------------------------------
(* The POST /api/chat handler.  A request is suspended at each await: the  *)
(* insert of the user row, findRelevantContext, the completion call and    *)
(* the insert of the assistant row; what runs between two awaits is one    *)
(* step.                                                                   *)

Requests == 1..MaxRequests
SessionId(k) == "s" \o ToString(k)
SessionIds == {SessionId(k) : k \in 1..MaxSessions}

\* The question of request r; "" stands for a body without a question.
QuestionOf(r) == "Ann " \o ToString(r) \o "?"

\* Texts the completion API answers with.
Completions == {"Ray said no.", "Ann Li spoke and then..."}

NoBody == [question |-> "", sessionId |-> ""]

userTurn(r) == [role |-> "user", content |-> body[r].question]
assistantTurn(r) == [role |-> "assistant", content |-> response[r]]

row(sid, role, content) == [session_id |-> sid, role |-> role, content |-> content]

Failing == {"insertingUser", "retrieving", "completing", "insertingAssistant"}

\* server.js 516-528: the request arrives; without a question it is answered
\* 400, otherwise the insert of the user row is started.
Receive(r, q, sid) ==
    /\ listening
    /\ cpc[r] = "new"
    /\ body' = [body EXCEPT ![r] = [question |-> q, sessionId |-> sid]]
    /\ cpc' = [cpc EXCEPT ![r] = IF q = "" THEN "rejected" ELSE "insertingUser"]
    /\ UNCHANGED <<engineVars, callVars, loadVars, ingestVars, sessions, chatLog,
                   sessionHistory, response, writers, readSeen, completion>>

\* server.js 525-531: the user row is stored, the history is read from the
\* map and findRelevantContext is called.
UserRowInserted(r) ==
    /\ cpc[r] = "insertingUser"
    /\ chatLog' = Append(chatLog, row(body[r].sessionId, "user", body[r].question))
    /\ sessionHistory' = [sessionHistory EXCEPT ![r] = sessions[body[r].sessionId]]
    /\ readSeen' = [readSeen EXCEPT ![r] = Len(writers[body[r].sessionId])]
    /\ cpc' = [cpc EXCEPT ![r] = "retrieving"]
    /\ UNCHANGED <<engineVars, callVars, loadVars, ingestVars, sessions, body, response, writers,
                   completion>>

\* server.js 531-533: findRelevantContext returned (a context or null) and
\* the completion call is made.
ContextRetrieved(r) ==
    /\ cpc[r] = "retrieving"
    /\ cpc' = [cpc EXCEPT ![r] = "completing"]
    /\ UNCHANGED <<engineVars, callVars, loadVars, ingestVars, sessions, chatLog, body,
                   sessionHistory, response, writers, readSeen, completion>>

\* server.js 595-602: the completion arrived, the response is completed and
\* the insert of the assistant row is started.
CompletionArrived(r, text) ==
    /\ cpc[r] = "completing"
    /\ completion' = [completion EXCEPT ![r] = text]
    /\ response' = [response EXCEPT ![r] = ensureCompleteResponse(text)]
    /\ cpc' = [cpc EXCEPT ![r] = "insertingAssistant"]
    /\ UNCHANGED <<engineVars, callVars, loadVars, ingestVars, sessions, chatLog, body,
                   sessionHistory, writers, readSeen>>

\* An update that appends the two new turns to what the map holds now.
sessionsSetAppending(map, sid, value) ==
    [map EXCEPT ![sid] = @ \o SubSeq(value, Len(value) - 1, Len(value))]

\* sessions.set(sessionId, value)
sessionsSet(map, sid, value) == [map EXCEPT ![sid] = value]

\* A history to store that ends with the user turn alone.
newHistoryUserOnly(r) == sessionHistory[r] \o <<userTurn(r)>>

\* server.js 604-608: the history the request stores
newHistory(r) == sessionHistory[r] \o <<userTurn(r), assistantTurn(r)>>

\* An update of the map that is made without storing the assistant row.
AssistantRowSkipped(r) ==
    /\ cpc[r] = "insertingAssistant"
    /\ sessions' = sessionsSet(sessions, body[r].sessionId, newHistory(r))
    /\ writers' = [writers EXCEPT ![body[r].sessionId] = Append(@, r)]
    /\ cpc' = [cpc EXCEPT ![r] = "responded"]
    /\ UNCHANGED <<engineVars, callVars, loadVars, ingestVars, chatLog, body,
                   sessionHistory, response, readSeen, completion>>

\* server.js 599-611: the assistant row is stored, the map is updated and the
\* response is sent.
AssistantRowInserted(r) ==
    /\ cpc[r] = "insertingAssistant"
    /\ chatLog' = Append(chatLog, row(body[r].sessionId, "assistant", response[r]))
    /\ sessions' = sessionsSet(sessions, body[r].sessionId, newHistory(r))
    /\ writers' = [writers EXCEPT ![body[r].sessionId] = Append(@, r)]
    /\ cpc' = [cpc EXCEPT ![r] = "responded"]
    /\ UNCHANGED <<engineVars, callVars, loadVars, ingestVars, body, sessionHistory, response,
                   readSeen, completion>>

\* A catch block that keeps the user turn of the failed request.
RequestFailsKeepingUserTurn(r) ==
    /\ cpc[r] \in Failing
    /\ cpc' = [cpc EXCEPT ![r] = "failed"]
    /\ sessions' = [sessions EXCEPT ![body[r].sessionId] = Append(@, userTurn(r))]
    /\ UNCHANGED <<engineVars, callVars, loadVars, ingestVars, chatLog, body,
                   sessionHistory, response, writers, readSeen, completion>>

\* server.js 613-626: an awaited call rejected (the database, the embedding
\* provider inside findRelevantContext, the completion API); the catch block
\* answers with an error status.
RequestFails(r) ==
    /\ cpc[r] \in Failing
    /\ cpc' = [cpc EXCEPT ![r] = "failed"]
    /\ UNCHANGED <<engineVars, callVars, loadVars, ingestVars, sessions, chatLog, body,
                   sessionHistory, response, writers, readSeen, completion>>

ChatStep(r) ==
    \/ \E sid \in SessionIds, q \in {QuestionOf(r), ""} : Receive(r, q, sid)
    \/ UserRowInserted(r)
    \/ ContextRetrieved(r)
    \/ \E text \in Completions : CompletionArrived(r, text)
    \/ AssistantRowInserted(r)
    \/ RequestFails(r)

\* The two turns of an exchange that an earlier request stored.
EarlierTurns ==
    << [role |-> "user", content |-> "Bob?"],
       [role |-> "assistant", content |-> "Ray said no."] >>

\* The handler's state when no request is in progress and the history h was
\* stored for the first session by requests served before (server.js 525-528,
\* 599-609: their rows are in the log).
ServedEarlier(h) ==
    /\ sessions = [sid \in SessionIds |-> IF sid = SessionId(1) THEN h ELSE <<>>]
    /\ chatLog = [i \in 1..Len(h) |-> row(SessionId(1), h[i].role, h[i].content)]
    /\ cpc = [r \in Requests |-> "new"]
    /\ body = [r \in Requests |-> NoBody]
    /\ sessionHistory = [r \in Requests |-> <<>>]
    /\ response = [r \in Requests |-> ""]
    /\ writers = [sid \in SessionIds |-> <<>>]
    /\ readSeen = [r \in Requests |-> 0]
    /\ completion = [r \in Requests |-> ""]

\* server.js 505: const sessions = new Map()
NoRequests == ServedEarlier(<<>>)

-----------------------------------------------------------------------------
(* Inputs of the retrieval specification.                                  *)

PersonNames == <<"Ann Li", "Bob Ray", "Cy Dee", "Eve Fox", "Gus Hu">>

\* Row i of metadata.csv, as csv.parse returns it (columns name and date;
\* excerpt_title and tags are not read by the engine).
RecordOf(i) ==
    [name |-> PersonNames[((i - 1) % Len(PersonNames)) + 1],
     date |-> ToString(2000 + i)]

ChunkVectors == << <<1, 0>>, <<4, 3>>, <<3, 4>> >>
QueryVectors == { <<1, 0>>, <<0, 1>> }

\* Sequences of document numbers as the ingestion script lays chunks out:
\* the files are read in numeric order, so the numbers never decrease.
LayoutsOf(n) ==
    {f \in [1..n -> 1..MaxRecords] : \A i \in 1..(n - 1) : f[i] <= f[i + 1]}

\* Layouts of an embeddings.json that was not written by the ingestion
\* script: 0 stands for a chunk of source "constructor", -1 for one of source
\* "1000000000".
HandMadeLayouts == {<<0>>, <<1, 0, 1>>, <<1, -1>>, <<1, 1, -1>>}

Layouts == UNION {LayoutsOf(n) : n \in 0..MaxChunks} \cup HandMadeLayouts

\* The source name of the chunks that a layout numbers d.
SourceNameOf(d) ==
    IF d = 0 THEN "constructor"
    ELSE IF d = -1 THEN "1000000000"
    ELSE documentNameOf(ToString(d))

ChunkMetadataOf(layout) ==
    [i \in 1..Len(layout) |->
        [defined |-> TRUE,
         source |-> SourceNameOf(layout[i]),
         page |-> IF i % 2 = 1 THEN ToString(i) ELSE "undefined"]]

\* The embeddings of an embeddings.json that holds a zero vector (it was not
\* written from the provider's answers): three chunks of document1.pdf.
ZeroVectorEmbeddings == << <<3, 4>>, <<0, 0>>, <<1, 0>> >>

EmbeddingsOf(layout, k) ==
    [i \in 1..Len(layout) |-> ChunkVectors[((i + k) % Len(ChunkVectors)) + 1]]

TextsOf(layout) == [i \in 1..Len(layout) |-> "t" \o ToString(i)]

LongQuestion ==
    "What organization did Bob Ray found in 1987, per the interview?"

Questions ==
    {"Ann?", "compare Ann and Cy", "why?", "Tell me about Bob and Dee",
     LongQuestion}

Histories ==
    {<<>>,
     <<[role |-> "user", content |-> "Bob?"],
       [role |-> "assistant", content |-> "Ray said no."]>>}

-----------------------------------------------------------------------------
(* Start-up: initialize (server.js 277-310), its caller (502-503) and      *)
(* app.listen (656-660).                                                   *)

AllKeys == {"embeddings", "texts", "metadata"}

\* embeddings.json: missing, not JSON, or an object holding some of the three
\* arrays.  metadata.csv: missing, not CSV, or its rows.
JsonFile(keys, e, t, m) ==
    [status |-> "ok", keys |-> keys,
     embeddings |-> IF "embeddings" \in keys THEN e ELSE <<>>,
     texts |-> IF "texts" \in keys THEN t ELSE <<>>,
     metadata |-> IF "metadata" \in keys THEN m ELSE <<>>]
BrokenJsonFile(status) ==
    [status |-> status, keys |-> {}, embeddings |-> <<>>, texts |-> <<>>,
     metadata |-> <<>>]
CsvFile(records) == [status |-> "ok", records |-> records]
BrokenCsvFile(status) == [status |-> status, records |-> <<>>]

OneDocument(n) == [i \in 1..n |-> 1]

EmbeddingsFiles ==
    {BrokenJsonFile("unreadable"), BrokenJsonFile("malformed")}
    \cup {JsonFile(keys, EmbeddingsOf(OneDocument(ne), 1), TextsOf(OneDocument(nt)),
                   ChunkMetadataOf(OneDocument(nm))) :
            keys \in {AllKeys} \cup {AllKeys \ {k} : k \in AllKeys},
            ne \in 0..MaxArrayLen, nt \in 0..MaxArrayLen, nm \in 0..MaxArrayLen}

MetadataFiles ==
    {BrokenCsvFile("unreadable"), BrokenCsvFile("malformed")}
    \cup {CsvFile([i \in 1..n |-> RecordOf(i)]) : n \in 0..MaxRecords}

\* The state of the engine and of its promise when initialize has run on the
\* two files, starting from the engine the constructor built.
\*   279      readFileSync / JSON.parse throw: nothing was assigned
\*   280-282  the three fields are assigned (undefined for an absent key)
\*   285      this.texts.slice throws when texts is undefined
\*   289-293  readFileSync / csv.parse throw: the arrays stay assigned
\*   300-303  the registry is filled
\*   305      this.embeddings.length throws when embeddings is undefined
initializeOutcome(ef, mf) ==
    LET assigned == [embeddings |-> ef.embeddings, texts |-> ef.texts,
                     chunkMetadata |-> ef.metadata, metadata |-> <<>>,
                     undefinedFields |-> AllKeys \ ef.keys,
                     status |-> "rejected"]
    IN  IF ef.status # "ok"
        THEN [embeddings |-> <<>>, texts |-> <<>>, chunkMetadata |-> <<>>,
              metadata |-> <<>>, undefinedFields |-> {}, status |-> "rejected"]
        ELSE IF "texts" \notin ef.keys THEN assigned
        ELSE IF mf.status # "ok" THEN assigned
        ELSE IF "embeddings" \notin ef.keys
        THEN [assigned EXCEPT !.metadata = mf.records]
        ELSE [assigned EXCEPT !.metadata = mf.records, !.status = "resolved"]

\* server.js 502-503: the engine is built and initialize runs to its end
\* (it awaits nothing); a rejection goes to console.error.
Initialize ==
    /\ initStatus = "pending"
    /\ LET out == initializeOutcome(embeddingsFile, metadataFile)
       IN  /\ embeddings' = out.embeddings
           /\ texts' = out.texts
           /\ chunkMetadata' = out.chunkMetadata
           /\ metadata' = out.metadata
           /\ undefinedFields' = out.undefinedFields
           /\ initStatus' = out.status
    /\ UNCHANGED <<callVars, chatVars, ingestVars, embeddingsFile, metadataFile, listening>>

\* server.js 656-660: the module's top level goes on to app.listen whatever
\* initialize did.
Listen ==
    /\ initStatus # "pending"
    /\ ~listening
    /\ listening' = TRUE
    /\ UNCHANGED <<engineVars, callVars, chatVars, ingestVars, embeddingsFile, metadataFile,
                   undefinedFields, initStatus>>

\* The start-up variables of a process whose engine loaded e, t, m and the
\* records without error and which listens.
LoadedFrom(e, t, m, records) ==
    /\ embeddingsFile = JsonFile(AllKeys, e, t, m)
    /\ metadataFile = CsvFile(records)
    /\ undefinedFields = {}
    /\ initStatus = "resolved"
    /\ listening = TRUE

-----------------------------------------------------------------------------
(* The ingestion script: generateEmbeddings and saveEmbeddings.  The       *)
(* requests of a batch are all issued by batch.map before the loop awaits  *)
(* Promise.all, which gathers their results by position whatever the order *)
(* they settle in; the model therefore counts the requests in flight and   *)
(* fixes beforehand (embedFails) which of them the provider rejects.       *)

BatchSize == 20

\* The chunk splitIntoChunks made at position k.
ChunkOf(k) == [text |-> "c" \o ToString(k), source |-> "document1.pdf", tokens |-> k]

\* The vector the provider returns for a text (one vector per text).
ProviderEmbedding(text) == <<parseNat(SubSeq(text, 2, Len(text))), 1>>

NotWritten == [status |-> "none", embeddings |-> <<>>, texts |-> <<>>, metadata |-> <<>>]

minOf(a, b) == IF a <= b THEN a ELSE b

\* chunks.slice(i, i + batchSize), as the positions it holds
batchPositions(i) == (i + 1)..minOf(i + BatchSize, Len(chunks))

\* batchEmbeddings.filter(emb => emb !== null), for the batch at positions
\* from..to: the embeddings of the requests that were not rejected, in order
RECURSIVE keptEmbeddings(_, _)
keptEmbeddings(from, to) ==
    IF from > to THEN <<>>
    ELSE (IF from \in embedFails THEN <<>>
          ELSE <<ProviderEmbedding(chunks[from].text)>>)
         \o keptEmbeddings(from + 1, to)

ingestOthers == <<engineVars, callVars, chatVars, loadVars>>

\* part_000 123-138: the loop takes the next batch and issues its requests
IssueBatch ==
    /\ gpc = "loop"
    /\ batchStart < Len(chunks)
    /\ inFlight' = inFlight + Cardinality(batchPositions(batchStart))
    /\ gpc' = "awaitAll"
    /\ UNCHANGED <<ingestOthers, chunks, embedFails, batchStart, generated, written>>

\* part_000 128-137: one request settles (its embedding, or null after a
\* rejection)
RequestSettles ==
    /\ gpc = "awaitAll"
    /\ inFlight > 0
    /\ inFlight' = inFlight - 1
    /\ UNCHANGED <<ingestOthers, chunks, embedFails, gpc, batchStart, generated, written>>

\* A loop that goes on without awaiting the requests of the batch.
BatchGatheredEarly ==
    /\ gpc = "awaitAll"
    /\ generated' = generated
                    \o keptEmbeddings(batchStart + 1,
                                      minOf(batchStart + BatchSize, Len(chunks)))
    /\ IF batchStart + BatchSize < Len(chunks)
       THEN gpc' = "delay" /\ UNCHANGED batchStart
       ELSE gpc' = "loop" /\ batchStart' = batchStart + BatchSize
    /\ UNCHANGED <<ingestOthers, chunks, embedFails, inFlight, written>>

\* part_000 140-146: Promise.all resolved; the embeddings that are not null
\* are pushed; the delay is started unless this was the last batch
BatchGathered ==
    /\ gpc = "awaitAll"
    /\ inFlight = 0
    /\ generated' = generated
                    \o keptEmbeddings(batchStart + 1,
                                      minOf(batchStart + BatchSize, Len(chunks)))
    /\ IF batchStart + BatchSize < Len(chunks)
       THEN gpc' = "delay" /\ UNCHANGED batchStart
       ELSE gpc' = "loop" /\ batchStart' = batchStart + BatchSize
    /\ UNCHANGED <<ingestOthers, chunks, embedFails, inFlight, written>>

\* part_000 145 and 123: the delay elapsed, i += batchSize
DelayElapsed ==
    /\ gpc = "delay"
    /\ gpc' = "loop"
    /\ batchStart' = batchStart + BatchSize
    /\ UNCHANGED <<ingestOthers, chunks, embedFails, inFlight, generated, written>>

\* part_000 149 and 30-33: the loop is over, processDocuments goes on to
\* saveEmbeddings
LoopEnds ==
    /\ gpc = "loop"
    /\ batchStart >= Len(chunks)
    /\ gpc' = "save"
    /\ UNCHANGED <<ingestOthers, chunks, embedFails, batchStart, inFlight, generated,
                   written>>

\* part_000 157-164: the structure saveEmbeddings writes
artifactOf(embs, chs) ==
    [status |-> "written",
     embeddings |-> embs,
     texts |-> [k \in 1..Len(chs) |-> chs[k].text],
     metadata |-> [k \in 1..Len(chs) |->
                      [source |-> chs[k].source, tokens |-> chs[k].tokens]]]

\* part_000 152-169
SaveEmbeddings ==
    /\ gpc = "save"
    /\ written' = artifactOf(generated, chunks)
    /\ gpc' = "done"
    /\ UNCHANGED <<ingestOthers, chunks, embedFails, batchStart, inFlight, generated>>

NoIngestion ==
    /\ chunks = <<>>
    /\ embedFails = {}
    /\ gpc = "done"
    /\ batchStart = 0
    /\ inFlight = 0
    /\ generated = <<>>
    /\ written = NotWritten

-----------------------------------------------------------------------------
(* One call of findRelevantContext.  The call is suspended at each         *)
(* `await this.getEmbedding(...)`, where rpc names the branch whose call   *)
(* is in flight and the provider either returns a vector or fails, and at  *)
(* each `await this.findSimilarContent(...)`, where rpc is rankedA,        *)
(* rankedB or rankedC: the ranking is made, the branch has not gone on.    *)

\* server.js 458-464: getEmbedding(text) resolved with the vector v
Resolved(text, v) == [input |-> text, ok |-> TRUE, vector |-> v]

\* server.js 458-464: getEmbedding(text) rejected
Rejected(text) == [input |-> text, ok |-> FALSE, vector |-> <<>>]

IdleCall ==
    /\ rpc = "idle"
    /\ question = ""
    /\ history = <<>>
    /\ contextualQuery = ""
    /\ names = <<>>
    /\ matchIdx = 0
    /\ contexts = <<>>
    /\ embedCalls = 0
    /\ embedLog = <<>>
    /\ similarContent = <<>>
    /\ branch = "none"
    /\ result = NoResult

\* server.js 335-356, 384-385, up to the first getEmbedding call
Call(q, h) ==
    /\ rpc = "idle"
    /\ LET cq == contextualQueryOf(q, h)
           nm == findAllNamesInQuestion(cq)
       IN  /\ question' = q
           /\ history' = h
           /\ contextualQuery' = cq
           /\ names' = nm
           /\ rpc' = IF entersBranchA(cq, nm) THEN "A"
                     ELSE IF Len(nm) > 0 THEN "B" ELSE "C"
    /\ matchIdx' = 1
    /\ contexts' = <<>>
    /\ embedCalls' = 1
    /\ embedLog' = <<>>
    /\ similarContent' = <<>>
    /\ branch' = "none"
    /\ result' = NoResult
    /\ UNCHANGED <<engineVars, chatVars, loadVars, ingestVars>>

\* server.js 360-361: the provider call of Branch A resolved with v and
\* findSimilarContent ranked the chunks of the match's document; the call is
\* suspended on `await this.findSimilarContent(...)`.
BranchAStep(v) ==
    /\ rpc = "A"
    /\ similarContent' = findSimilarContent(v, documentNameOf(names[matchIdx].id))
    /\ embedLog' = Append(embedLog, Resolved(contextualQuery, v))
    /\ rpc' = "rankedA"
    /\ UNCHANGED <<engineVars, chatVars, loadVars, ingestVars, question, history, contextualQuery, names,
                   matchIdx, contexts, embedCalls, branch, result>>

\* server.js 363-382: the turn of Branch A's loop goes on after the await:
\* the block is stored, and the next provider call is made or the blocks are
\* returned.  similarContent is local to the turn.
BranchAResumes ==
    /\ rpc = "rankedA"
    /\ LET match == names[matchIdx]
           sc == similarContent
           ctxs == IF Len(sc) > 0 THEN Append(contexts, contextOf(match, sc))
                   ELSE contexts
       IN  /\ contexts' = ctxs
           /\ similarContent' = <<>>
           /\ IF matchIdx < Len(names)
              THEN /\ matchIdx' = matchIdx + 1
                   /\ embedCalls' = embedCalls + 1
                   /\ rpc' = "A"
                   /\ UNCHANGED <<branch, result>>
              ELSE /\ rpc' = "done"
                   /\ branch' = "A"
                   /\ result' = Returned(formatContexts(ctxs))
                   /\ UNCHANGED <<matchIdx, embedCalls>>
    /\ UNCHANGED <<engineVars, chatVars, loadVars, ingestVars, question, history, contextualQuery, names,
                   embedLog>>

\* server.js 389-391: the provider call of Branch B resolved with v and
\* findSimilarContent ranked the chunks of the first match's document; the
\* call is suspended on `await this.findSimilarContent(...)`.
BranchBStep(v) ==
    /\ rpc = "B"
    /\ similarContent' = findSimilarContent(v, documentNameOf(names[1].id))
    /\ embedLog' = Append(embedLog, Resolved(contextualQuery, v))
    /\ rpc' = "rankedB"
    /\ UNCHANGED <<engineVars, chatVars, loadVars, ingestVars, question, history, contextualQuery, names,
                   matchIdx, contexts, embedCalls, branch, result>>

\* A Branch B that returns null when the matched document yields no chunk.
BranchBResumesStopping ==
    /\ rpc = "rankedB"
    /\ LET nameMatch == names[1]
           sc == similarContent
       IN  /\ rpc' = "done"
           /\ branch' = IF Len(sc) > 0 THEN "B" ELSE "null"
           /\ result' = IF Len(sc) > 0
                        THEN Returned(formatChunks(nameMatch.id, nameMatch.record, sc))
                        ELSE ReturnedNull
    /\ UNCHANGED <<engineVars, chatVars, loadVars, ingestVars, question, history, contextualQuery, names,
                   matchIdx, contexts, embedCalls, embedLog, similarContent>>

\* server.js 393-400: Branch B goes on after the await: the chunks are
\* returned, or, when there is none, the provider call of Branch C is made.
BranchBResumes ==
    /\ rpc = "rankedB"
    /\ LET nameMatch == names[1]
           sc == similarContent
       IN  IF Len(sc) > 0
           THEN /\ rpc' = "done"
                /\ branch' = "B"
                /\ result' = Returned(formatChunks(nameMatch.id, nameMatch.record, sc))
                /\ UNCHANGED embedCalls
           ELSE /\ rpc' = "C"
                /\ embedCalls' = embedCalls + 1
                /\ UNCHANGED <<branch, result>>
    /\ UNCHANGED <<engineVars, chatVars, loadVars, ingestVars, question, history, contextualQuery, names,
                   matchIdx, contexts, embedLog, similarContent>>

\* server.js 403-425
branchCResult(sc) ==
    IF \E i \in 1..Len(sc) : ~sc[i].metadata.defined
    THEN Thrown("TypeError")
    ELSE LET grouping == groupBySource(sc, <<>>)
             groupedResults == grouping.groups
         IN  IF grouping.threw THEN Thrown("TypeError")
             ELSE IF Len(groupedResults) = 0 THEN ReturnedNull
             ELSE LET bestSource == bestSourceOf(groupedResults)
                      m == matchDocument(bestSource.source)
                  IN  IF ~m.found THEN Thrown("TypeError")
                      ELSE IF metadataGet(m.id) = 0 THEN Thrown("TypeError")
                      ELSE Returned(formatChunks(m.id, metadata[metadataGet(m.id)],
                                                 bestSource.items))

\* A Branch C whose ranking sorts and cuts this.texts itself.
BranchCStepSortingCorpus(v) ==
    /\ rpc = "C"
    /\ LET sc == findSimilarContent(v, "")
       IN  /\ similarContent' = sc
           /\ texts' = [i \in 1..Len(sc) |-> sc[i].text]
    /\ embedLog' = Append(embedLog, Resolved(contextualQuery, v))
    /\ rpc' = "rankedC"
    /\ UNCHANGED <<embeddings, chunkMetadata, metadata, chatVars, loadVars, ingestVars,
                   question, history, contextualQuery, names, matchIdx, contexts,
                   embedCalls, branch, result>>

\* server.js 400-401: the provider call of Branch C resolved with v and
\* findSimilarContent ranked the whole corpus; the call is suspended on
\* `await this.findSimilarContent(...)`.
BranchCStep(v) ==
    /\ rpc = "C"
    /\ similarContent' = findSimilarContent(v, "")
    /\ embedLog' = Append(embedLog, Resolved(contextualQuery, v))
    /\ rpc' = "rankedC"
    /\ UNCHANGED <<engineVars, chatVars, loadVars, ingestVars, question, history, contextualQuery, names,
                   matchIdx, contexts, embedCalls, branch, result>>

\* server.js 403-429: Branch C goes on after the await: the chunks are
\* grouped, the registry is read and the call returns or throws.
BranchCResumes ==
    /\ rpc = "rankedC"
    /\ LET res == branchCResult(similarContent)
       IN  /\ result' = res
           /\ branch' = IF res.kind = "string" THEN "C"
                        ELSE IF res.kind = "null" THEN "null" ELSE "catch"
    /\ rpc' = "done"
    /\ UNCHANGED <<engineVars, chatVars, loadVars, ingestVars, question, history, contextualQuery, names,
                   matchIdx, contexts, embedCalls, embedLog, similarContent>>

\* A catch block that returns the blocks built before the provider call
\* rejected.
EmbeddingFailsReturningBlocks ==
    /\ rpc \in {"A", "B", "C"}
    /\ rpc' = "done"
    /\ branch' = "A"
    /\ result' = Returned(formatContexts(contexts))
    /\ embedLog' = Append(embedLog, Rejected(contextualQuery))
    /\ UNCHANGED <<engineVars, chatVars, loadVars, ingestVars, question, history, contextualQuery, names,
                   matchIdx, contexts, embedCalls, similarContent>>

\* server.js 458-464 and 426-429: the provider call rejects, the call rethrows
EmbeddingFails ==
    /\ rpc \in {"A", "B", "C"}
    /\ rpc' = "done"
    /\ branch' = "catch"
    /\ result' = Thrown("EmbeddingProviderError")
    /\ embedLog' = Append(embedLog, Rejected(contextualQuery))
    /\ UNCHANGED <<engineVars, chatVars, loadVars, ingestVars, question, history, contextualQuery, names,
                   matchIdx, contexts, embedCalls, similarContent>>

\* The caller has its answer; the engine is ready for the next call.
CallEnds ==
    /\ rpc = "done"
    /\ rpc' = "idle"
    /\ question' = ""
    /\ history' = <<>>
    /\ contextualQuery' = ""
    /\ names' = <<>>
    /\ matchIdx' = 0
    /\ contexts' = <<>>
    /\ embedCalls' = 0
    /\ embedLog' = <<>>
    /\ similarContent' = <<>>
    /\ branch' = "none"
    /\ result' = NoResult
    /\ UNCHANGED <<engineVars, chatVars, loadVars, ingestVars>>

InitRetrieval ==
    /\ \/ \E layout \in Layouts, k \in 1..NumPatterns :
             /\ embeddings = EmbeddingsOf(layout, k)
             /\ texts = TextsOf(layout)
             /\ chunkMetadata = ChunkMetadataOf(layout)
       \/ /\ embeddings = ZeroVectorEmbeddings
          /\ texts = TextsOf(OneDocument(Len(ZeroVectorEmbeddings)))
          /\ chunkMetadata = ChunkMetadataOf(OneDocument(Len(ZeroVectorEmbeddings)))
    /\ \E n \in 0..MaxRecords : metadata = [i \in 1..n |-> RecordOf(i)]
    /\ IdleCall
    /\ NoRequests
    /\ NoIngestion
    /\ LoadedFrom(embeddings, texts, chunkMetadata, metadata)

NextRetrieval ==
    \/ \E q \in Questions, h \in Histories : Call(q, h)
    \/ \E v \in QueryVectors : BranchAStep(v)
    \/ \E v \in QueryVectors : BranchBStep(v)
    \/ \E v \in QueryVectors : BranchCStep(v)
    \/ BranchAResumes
    \/ BranchBResumes
    \/ BranchCResumes
    \/ EmbeddingFails
    \/ CallEnds

SpecRetrieval == InitRetrieval /\ [][NextRetrieval]_vars

(* The query specification: the same call on a one-chunk corpus, with      *)
(* registries, questions and histories chosen for the reformulation of the *)
(* query and for the resolver.                                             *)

\* Names of a metadata.csv: two tokens separated by a space, two tokens
\* separated by a tab, two tokens of 2 characters.
QueryNames == <<"Ann Li", "Bob Ray", "Cy\tDee", "Al Wu">>

\* The registries of 0..MaxRegistry rows with different names.
Registries ==
    UNION {{[i \in 1..n |-> [name |-> QueryNames[f[i]], date |-> ToString(2000 + f[i])]] :
              f \in {g \in [1..n -> 1..Len(QueryNames)] :
                        \A i, j \in 1..n : i # j => g[i] # g[j]}} :
           n \in 0..MaxRegistry}

HowQuestion ==
    "HOW did Ann Li describe the founding of the group in those years?"

WhyQuestion ==
    "Why did Ann Li describe the founding of the group in those years?"

PlainSentence ==
    "Describe what Ann Li said about the founding years of the group."

QueryTexts ==
    {"dee?", "Tell me of RAY and ann", "al wu?", "Wu?", LongQuestion, HowQuestion,
     WhyQuestion, PlainSentence}

RecentTurns ==
    << [role |-> "user", content |-> "Dee?"],
       [role |-> "assistant", content |-> "No."],
       [role |-> "user", content |-> "Bob?"],
       [role |-> "assistant", content |-> "Ray said no."] >>

\* Histories of 0, 2 and 6 turns; the two of 6 turns end with the same 4.
FoldHistories ==
    {<<>>,
     SubSeq(RecentTurns, 3, 4),
     << [role |-> "user", content |-> "Ann?"],
        [role |-> "assistant", content |-> "Li left."] >> \o RecentTurns,
     << [role |-> "user", content |-> "Wu?"],
        [role |-> "assistant", content |-> "Al Wu won."] >> \o RecentTurns}

InitQuery ==
    /\ embeddings = EmbeddingsOf(OneDocument(1), 1)
    /\ texts = TextsOf(OneDocument(1))
    /\ chunkMetadata = ChunkMetadataOf(OneDocument(1))
    /\ metadata \in Registries
    /\ IdleCall
    /\ NoRequests
    /\ NoIngestion
    /\ LoadedFrom(embeddings, texts, chunkMetadata, metadata)

NextQuery ==
    \/ \E q \in QueryTexts, h \in FoldHistories : Call(q, h)
    \/ \E v \in QueryVectors : BranchAStep(v)
    \/ \E v \in QueryVectors : BranchBStep(v)
    \/ \E v \in QueryVectors : BranchCStep(v)
    \/ BranchAResumes
    \/ BranchBResumes
    \/ BranchCResumes
    \/ EmbeddingFails
    \/ CallEnds

SpecQuery == InitQuery /\ [][NextQuery]_vars
-----------------------------------------------------------------------------
(* The chat specification: a process that loaded its corpus, has served     *)
(* nothing or one exchange on the first session, and serves MaxRequests    *)
(* requests.                                                               *)

ServedLayout == <<1, 2>>

Init ==
    /\ embeddings = EmbeddingsOf(ServedLayout, 1)
    /\ texts = TextsOf(ServedLayout)
    /\ chunkMetadata = ChunkMetadataOf(ServedLayout)
    /\ metadata = [i \in 1..2 |-> RecordOf(i)]
    /\ LoadedFrom(embeddings, texts, chunkMetadata, metadata)
    /\ IdleCall
    /\ \E h \in {<<>>, EarlierTurns} : ServedEarlier(h)
    /\ NoIngestion

Next == \E r \in Requests : ChatStep(r)

Spec == Init /\ [][Next]_vars

-----------------------------------------------------------------------------
(* The completion specification: one chat request of the served process,   *)
(* answered by the completion API with any text of up to MaxTextLen         *)
(* characters, or with one of the longer sample texts.                      *)

TextChars == {".", "!", "a", " "}

RECURSIVE TextsOfLen(_)
TextsOfLen(n) ==
    IF n = 0 THEN {""}
    ELSE {t \o c : t \in TextsOfLen(n - 1), c \in TextChars}

\* A reply that the token limit cut after an ellipsis inside the text.
CutReply == "Ann said... and then"

CompletionTexts ==
    UNION {TextsOfLen(n) : n \in 0..MaxTextLen} \cup Completions \cup {CutReply}

InitComplete == Init

NextComplete ==
    \/ \E sid \in SessionIds, q \in {QuestionOf(1), ""} : Receive(1, q, sid)
    \/ UserRowInserted(1)
    \/ ContextRetrieved(1)
    \/ \E text \in CompletionTexts : CompletionArrived(1, text)
    \/ AssistantRowInserted(1)
    \/ RequestFails(1)

SpecComplete == InitComplete /\ [][NextComplete]_vars

(* The start-up specification: the two files are in any state, the module  *)
(* is loaded and the first request is served.                              *)

InitLoad ==
    /\ embeddingsFile \in EmbeddingsFiles
    /\ metadataFile \in MetadataFiles
    /\ embeddings = <<>>
    /\ texts = <<>>
    /\ chunkMetadata = <<>>
    /\ metadata = <<>>
    /\ undefinedFields = {}
    /\ initStatus = "pending"
    /\ listening = FALSE
    /\ IdleCall
    /\ NoRequests
    /\ NoIngestion

NextLoad ==
    \/ Initialize
    \/ Listen
    \/ ChatStep(1)

SpecLoad == InitLoad /\ [][NextLoad]_vars

(* The ingestion specification: one run of the script on 0..MaxIngestChunks *)
(* chunks, the provider rejecting at most MaxFailures of the requests.     *)

FailureSets(n) == {f \in SUBSET (1..n) : Cardinality(f) <= MaxFailures}

InitIngest ==
    /\ \E n \in 0..MaxIngestChunks :
          /\ chunks = [k \in 1..n |-> ChunkOf(k)]
          /\ embedFails \in FailureSets(n)
    /\ gpc = "loop"
    /\ batchStart = 0
    /\ inFlight = 0
    /\ generated = <<>>
    /\ written = NotWritten
    /\ embeddings = <<>>
    /\ texts = <<>>
    /\ chunkMetadata = <<>>
    /\ metadata = <<>>
    /\ embeddingsFile = BrokenJsonFile("unreadable")
    /\ metadataFile = BrokenCsvFile("unreadable")
    /\ undefinedFields = {}
    /\ initStatus = "pending"
    /\ listening = FALSE
    /\ IdleCall
    /\ NoRequests

NextIngest ==
    \/ IssueBatch
    \/ RequestSettles
    \/ BatchGathered
    \/ DelayElapsed
    \/ LoopEnds
    \/ SaveEmbeddings

SpecIngest == InitIngest /\ [][NextIngest]_vars

-----------------------------------------------------------------------------
(* Reading a returned context.                                             *)

occurrences(s, sub) ==
    {i \in 1..(Len(s) - Len(sub) + 1) : SubSeq(s, i, i + Len(sub) - 1) = sub}

countOf(s, sub) == Cardinality(occurrences(s, sub))

firstIndexOf(s, sub) ==
    LET found == occurrences(s, sub)
    IN  IF found = {} THEN 0 ELSE CHOOSE i \in found : \A j \in found : i <= j

HeaderText(id, record) ==
    "Interview " \o id \o " with " \o record.name \o " (" \o record.date \o "):"

LineText(item) == "[Page " \o item.metadata.page \o "] " \o item.text

\* The lines of the items occur in str, one after the other in this order.
LinesInOrder(str, items) ==
    /\ \A i \in 1..Len(items) : countOf(str, LineText(items[i])) = 1
    /\ \A i \in 1..(Len(items) - 1) :
          firstIndexOf(str, LineText(items[i])) < firstIndexOf(str, LineText(items[i + 1]))

Ended == rpc = "done"
ReturnedValue == Ended /\ result.kind \in {"string", "null"}

-----------------------------------------------------------------------------
(* Claims about findRelevantContext (SpecRetrieval).                       *)

\* C1: when the resolver returns two or more matches but fewer than two of
\* the matched documents yield a ranked chunk, the value returned is not
\* produced by Branch A's formatter (control falls through to Branch B / C).
C1_BranchAFallsThrough ==
    (ReturnedValue /\ Len(names) >= 2 /\ Len(contexts) < 2) => branch # "A"

\* C2: findRelevantContext returns the no-context marker (null) whenever no
\* branch selected any chunk, and it never returns an empty string.
C2_NullNeverEmptyString ==
    ReturnedValue =>
        /\ result # Returned("")
        /\ (Len(contexts) = 0 /\ Len(similarContent) = 0) => result = ReturnedNull

\* The case of C3: exactly one record matched and the ranking restricted to
\* its document returned n >= 1 chunks (held in similarContent).
SingleMatchCase ==
    /\ Ended
    /\ Len(names) = 1
    /\ branch = "B"
    /\ Len(similarContent) >= 1

\* C3 as stated: one embedding call, and a context with exactly one
\* "Interview <id> with <name> (<date>):" header followed by n "[Page p] text"
\* lines, one per returned chunk in rank order.
C3_SingleHeader ==
    SingleMatchCase =>
        /\ embedCalls = 1
        /\ result.kind = "string"
        /\ countOf(result.value, HeaderText(names[1].id, names[1].record)) = 1
        /\ countOf(result.value, "[Page ") = Len(similarContent)
        /\ LinesInOrder(result.value, similarContent)

\* C3 amended: one embedding call, and a context of n blocks in rank order,
\* one per returned chunk, each block being the header of the matched document
\* followed by that chunk's "[Page p] text" line; the header occurs n times.
C3_HeaderPerChunk ==
    SingleMatchCase =>
        /\ embedCalls = 1
        /\ result.kind = "string"
        /\ countOf(result.value, "Interview ") = Len(similarContent)
        /\ countOf(result.value, "[Page ") = Len(similarContent)
        /\ \A i \in 1..Len(similarContent) :
              countOf(result.value,
                      HeaderText(names[1].id, names[1].record) \o "\n"
                      \o LineText(similarContent[i])) = 1
        /\ LinesInOrder(result.value, similarContent)

C3_Witness == SingleMatchCase /\ Len(similarContent) >= 2

\* The sources of the ranked chunks, and the group of each.
SourcesOf(sc) == {sc[i].metadata.source : i \in 1..Len(sc)}
MembersOf(sc, w) == {i \in 1..Len(sc) : sc[i].metadata.source = w}
GroupSize(sc, w) == Cardinality(MembersOf(sc, w))
FirstOf(sc, w) == CHOOSE i \in MembersOf(sc, w) : \A j \in MembersOf(sc, w) : i <= j

RECURSIVE itemsOfSource(_, _)
itemsOfSource(sc, w) ==
    IF Len(sc) = 0 THEN <<>>
    ELSE (IF Head(sc).metadata.source = w THEN <<Head(sc)>> ELSE <<>>)
         \o itemsOfSource(Tail(sc), w)

\* w is the largest group; among the largest, the one met first in rank order.
IsSelectedGroup(sc, w) ==
    /\ w \in SourcesOf(sc)
    /\ \A u \in SourcesOf(sc) : GroupSize(sc, u) <= GroupSize(sc, w)
    /\ \A u \in SourcesOf(sc) :
          GroupSize(sc, u) = GroupSize(sc, w) => FirstOf(sc, w) <= FirstOf(sc, u)

\* C4: in Branch C the top-ranked chunks (similarContent) are grouped by
\* source, the largest group is selected, a tie is won by the group whose
\* first chunk comes earliest in rank order, and the context holds the chunks
\* of that group only, all of them, in rank order, under the registry name
\* and date of that group's document.
C4_LargestGroupFirstInRank ==
    (Ended /\ branch = "C") =>
        \E w \in SourcesOf(similarContent) :
            /\ IsSelectedGroup(similarContent, w)
            /\ result.kind = "string"
            /\ countOf(result.value, "[Page ") = GroupSize(similarContent, w)
            /\ LinesInOrder(result.value, itemsOfSource(similarContent, w))
            /\ \E d \in 1..Len(metadata) :
                  /\ w = documentNameOf(ToString(d))
                  /\ countOf(result.value, "Interview ") = GroupSize(similarContent, w)
                  /\ countOf(result.value, HeaderText(ToString(d), metadata[d]))
                        = GroupSize(similarContent, w)

\* Branch C returned with two largest groups of equal size, the winner not
\* being the group that comes first in the corpus.
C4_Witness ==
    /\ Ended
    /\ branch = "C"
    /\ \E w, u \in SourcesOf(similarContent) :
          /\ w # u
          /\ IsSelectedGroup(similarContent, w)
          /\ GroupSize(similarContent, u) = GroupSize(similarContent, w)
          /\ \E i \in 1..Len(chunkMetadata), j \in 1..Len(chunkMetadata) :
                /\ i < j
                /\ chunkMetadata[i].source = u
                /\ chunkMetadata[j].source = w
          /\ Len(similarContent) = TopK
-----------------------------------------------------------------------------
(* Claims about the chat handler and the session map (Spec).               *)

Finished(r) == cpc[r] \in {"responded", "failed"}

IsPrefix(a, b) == Len(a) <= Len(b) /\ SubSeq(b, 1, Len(a)) = a

PositionsOf(h, turn) == {i \in 1..Len(h) : h[i] = turn}

\* The ordinal of r's sessions.set among those of its session (0: none yet).
WriteOrdinal(r) ==
    LET w == writers[body[r].sessionId]
        at == {i \in 1..Len(w) : w[i] = r}
    IN  IF at = {} THEN 0 ELSE CHOOSE i \in at : TRUE

\* C5 as stated: every request that carries a question appends exactly one
\* user turn to the history stored under its session key, whether or not it
\* succeeds, and one assistant turn right after it exactly when it succeeds.
C5_UserTurnEvenOnFailure ==
    \A r \in Requests :
        Finished(r) =>
            LET h == sessions[body[r].sessionId]
                at == PositionsOf(h, userTurn(r))
            IN  /\ Cardinality(at) = 1
                /\ \A i \in at :
                      cpc[r] = "responded"
                          <=> (i < Len(h) /\ h[i + 1] = assistantTurn(r))

\* C5 amended: a request that succeeds stores under its session key the
\* history it read followed by exactly one user turn and one assistant turn;
\* a request that fails (or is refused for want of a question) leaves the
\* session map as it is, so its user turn is in no stored history.
C5_TurnsStoredOnSuccessOnly ==
    [][\A r \in Requests :
          /\ (cpc[r] # "responded" /\ cpc'[r] = "responded") =>
                LET h == sessions'[body[r].sessionId]
                    n == Len(sessionHistory[r])
                IN  /\ Len(h) = n + 2
                    /\ SubSeq(h, 1, n) = sessionHistory[r]
                    /\ h[n + 1] = [role |-> "user", content |-> body[r].question]
                    /\ h[n + 2] = [role |-> "assistant", content |-> response[r]]
          /\ (cpc[r] # cpc'[r] /\ cpc'[r] # "responded") =>
                /\ sessions' = sessions
                /\ \A sid \in SessionIds :
                      PositionsOf(sessions'[sid],
                                  [role |-> "user", content |-> QuestionOf(r)]) = {}
      ]_vars

\* One request of a session has failed and another has stored its two turns.
C5_Witness ==
    \E r1, r2 \in Requests :
        /\ cpc[r1] = "failed"
        /\ cpc[r2] = "responded"
        /\ body[r1].sessionId = body[r2].sessionId
        /\ PositionsOf(sessions[body[r2].sessionId], userTurn(r2)) # {}

\* r1 and r2 wrote the same session in this order, r2 having read the
\* history before r1 wrote it, and nothing was written after r2.
RacedPair(r1, r2) ==
    /\ r1 # r2
    /\ cpc[r1] = "responded"
    /\ cpc[r2] = "responded"
    /\ body[r1].sessionId = body[r2].sessionId
    /\ WriteOrdinal(r1) < WriteOrdinal(r2)
    /\ readSeen[r2] < WriteOrdinal(r1)
    /\ WriteOrdinal(r2) = Len(writers[body[r2].sessionId])

\* C6: when two requests of a session both read the stored history before
\* either writes it back, the history stored once both have finished is the
\* later writer's snapshot followed by the later writer's user and assistant
\* turns, and the earlier writer's turns are not in it.
C6_LastWriterWins ==
    \A r1, r2 \in Requests :
        RacedPair(r1, r2) =>
            LET h == sessions[body[r2].sessionId]
                n == Len(sessionHistory[r2])
            IN  /\ Len(h) = n + 2
                /\ SubSeq(h, 1, n) = sessionHistory[r2]
                /\ h[n + 1] = userTurn(r2)
                /\ h[n + 2] = assistantTurn(r2)
                /\ PositionsOf(h, userTurn(r1)) = {}

\* A raced pair whose later writer had read a history that was not empty.
C6_Witness ==
    \E r1, r2 \in Requests : RacedPair(r1, r2) /\ Len(sessionHistory[r2]) > 0

\* C7: the session store is append-only: each value written for a key has
\* the value stored before for that key as a prefix.
C7_AppendOnly ==
    [][\A sid \in SessionIds : IsPrefix(sessions[sid], sessions'[sid])]_vars

-----------------------------------------------------------------------------
(* Claims about start-up (SpecLoad).                                       *)

Unusable(file) == file.status # "ok"

LengthsDiffer(ef) ==
    /\ ef.status = "ok"
    /\ ef.keys = AllKeys
    /\ \/ Len(ef.embeddings) # Len(ef.texts)
       \/ Len(ef.texts) # Len(ef.metadata)

\* C8: initialize rejects when embeddings.json or metadata.csv is unreadable
\* or malformed, and also when the embeddings, texts and metadata arrays do
\* not all have the same length.
C8_InitializeRejectsBadCorpus ==
    (initStatus # "pending"
        /\ (Unusable(embeddingsFile) \/ Unusable(metadataFile)
            \/ LengthsDiffer(embeddingsFile)))
    => initStatus = "rejected"

\* C9: if initialize fails, no request runs findRelevantContext on the
\* engine, whose store is then empty or partly loaded.
C9_NoRetrievalAfterFailedLoad ==
    initStatus = "rejected" => \A r \in Requests : cpc[r] # "retrieving"
-----------------------------------------------------------------------------
(* Claims about the ingestion script (SpecIngest).                         *)

\* C10: the artifact written has embeddings, texts and metadata arrays of
\* equal length in which embeddings[i] is the embedding of texts[i], also in
\* runs in which some embedding requests fail and their items are dropped.
C10_ArtifactAligned ==
    written.status = "written" =>
        /\ Len(written.embeddings) = Len(written.texts)
        /\ Len(written.texts) = Len(written.metadata)
        /\ \A k \in 1..Len(written.embeddings) :
              written.embeddings[k] = ProviderEmbedding(written.texts[k])

-----------------------------------------------------------------------------
(* Claims about findRelevantContext, continued (SpecRetrieval).            *)

\* A getEmbedding call of the current call was rejected.
ProviderFailed == \E k \in 1..Len(embedLog) : ~embedLog[k].ok

\* C11: when an embedding-provider call made during a retrieval fails, also
\* the second or a later call of Branch A made after earlier documents
\* produced blocks, findRelevantContext is over and has thrown that error: it
\* returned no context, neither a string nor null.
C11_EmbeddingFailureAborts ==
    ProviderFailed =>
        /\ rpc = "done"
        /\ result = Thrown("EmbeddingProviderError")
        /\ ~embedLog[Len(embedLog)].ok
        /\ \A k \in 1..(Len(embedLog) - 1) : embedLog[k].ok

\* Branch A had built a block when its second provider call was rejected.
C11_Witness ==
    /\ Ended
    /\ ProviderFailed
    /\ Len(embedLog) = 2
    /\ Len(contexts) = 1
    /\ Len(names) >= 2

\* The documents a ranking can be restricted to; "" is no restriction.
SourceNames == {""} \cup {documentNameOf(ToString(i)) : i \in 1..MaxRecords}

\* The candidate set of a ranking, as corpus positions.
CandidatesOf(sn) ==
    {i \in 1..Len(embeddings) :
        sn = "" \/ (metadataAt(i).defined /\ metadataAt(i).source = sn)}

\* The item of the chunk at corpus position i for the query vector v.
ItemAt(v, i) ==
    [score |-> cosineSimilarity(v, embeddings[i]), text |-> textAt(i),
     metadata |-> metadataAt(i)]

\* The corpus position of a returned item (the texts of a corpus differ).
CorpusPositionOf(item) ==
    IF \E i \in 1..Len(texts) : texts[i] = item.text
    THEN CHOOSE i \in 1..Len(texts) : texts[i] = item.text
    ELSE 0

\* a >= b for two scores, as numbers compare: false when one is NaN.
scoreGeq(a, b) == ~isNaN(a) /\ ~isNaN(b) /\ ~scoreLess(a, b)

IsRanking(res, v, sn) ==
    /\ Len(res) <= 5
    /\ \A k \in 1..Len(res) : \E i \in CandidatesOf(sn) : res[k] = ItemAt(v, i)
    /\ \A k \in 1..(Len(res) - 1) :
          /\ scoreGeq(res[k].score, res[k + 1].score)
          /\ ~scoreLess(res[k + 1].score, res[k].score)
                => CorpusPositionOf(res[k]) < CorpusPositionOf(res[k + 1])
    /\ \A i \in CandidatesOf(sn) :
          (\A k \in 1..Len(res) : res[k] # ItemAt(v, i))
              => \A k \in 1..Len(res) : ~scoreLess(res[k].score, ItemAt(v, i).score)

\* The last getEmbedding call of a call with fewer than 2 matches resolved and
\* its vector was ranked (by Branch B or by Branch C) into similarContent.
RankingMade ==
    /\ Len(names) < 2
    /\ Len(embedLog) >= 1
    /\ embedLog[Len(embedLog)].ok

\* The restriction of that ranking: the matched document in Branch B.
RankedSource ==
    IF Len(names) = 1 /\ Len(embedLog) = 1 THEN documentNameOf(names[1].id) ELSE ""

\* C12: findSimilarContent returns at most 5 items, all from the candidate set
\* (every chunk, or the chunks of the given document), in non-increasing score
\* order, equal scores in corpus order, and no omitted candidate scores higher
\* than a returned one; a repeated call with the same vector and corpus
\* returns the identical list.
C12_RankingTopFiveStable ==
    /\ rpc = "idle" =>
          \A v \in QueryVectors, sn \in SourceNames :
              IsRanking(findSimilarContent(v, sn), v, sn)
    /\ RankingMade =>
          LET v == embedLog[Len(embedLog)].vector
          IN  /\ IsRanking(similarContent, v, RankedSource)
              /\ findSimilarContent(v, RankedSource) = similarContent

\* No vector of the corpus has magnitude 0 (the query vectors never have):
\* every score is a number.
NoZeroVector ==
    \A i \in 1..Len(embeddings) : \E j \in 1..Len(embeddings[i]) : embeddings[i][j] # 0

\* The statement of C12 on the corpora where every score is a number.
C12_RankingOfNumbers ==
    NoZeroVector => C12_RankingTopFiveStable

\* A ranking of a corpus of more than 5 chunks that returned 5 items, two of
\* them with equal scores, and left out a candidate.
C12_Witness ==
    /\ RankingMade
    /\ rpc = "done"
    /\ RankedSource = ""
    /\ Len(embeddings) > 5
    /\ Len(similarContent) = 5
    /\ \E k \in 1..4 :
          /\ ~scoreLess(similarContent[k].score, similarContent[k + 1].score)
          /\ ~scoreLess(similarContent[k + 1].score, similarContent[k].score)

-----------------------------------------------------------------------------
(* Claims about the resolver and the reformulation of the query            *)
(* (SpecQuery).                                                            *)

\* A call was made: contextualQuery and names hold what it computed.
Called == rpc # "idle"

\* The tokens of s between white space.
WhitespaceTokens(s) ==
    {SubSeq(s, a, b) : a \in 1..Len(s), b \in 1..Len(s)} \cap
    {SubSeq(s, ab[1], ab[2]) :
        ab \in {p \in (1..Len(s)) \X (1..Len(s)) :
                  /\ p[1] <= p[2]
                  /\ \A i \in p[1]..p[2] : ~IsSpace(CharAt(s, i))
                  /\ p[1] = 1 \/ IsSpace(CharAt(s, p[1] - 1))
                  /\ p[2] = Len(s) \/ IsSpace(CharAt(s, p[2] + 1))}}

\* The record's lowercased full name, or one of its tokens longer than 2
\* characters, is a substring of the lowercased text.
Qualifies(record, text) ==
    LET lowerText == toLowerCase(text)
        lowerName == toLowerCase(record.name)
    IN  \/ includes(lowerText, lowerName)
        \/ \E token \in WhitespaceTokens(lowerName) :
              Len(token) > 2 /\ includes(lowerText, token)

EntryOf(i) == [id |-> ToString(i), record |-> metadata[i]]

\* C13: findAllNamesInQuestion returns, in registry insertion order and each
\* at most once, exactly the records whose lowercased full name is a substring
\* of the lowercased text or that have a whitespace-separated name token
\* longer than 2 characters that is a substring of it; the empty list when no
\* record qualifies.
C13_ResolverExactMatches ==
    Called =>
        /\ \A k \in 1..Len(names) :
              \E i \in 1..Len(metadata) : names[k] = EntryOf(i)
        /\ \A k \in 1..(Len(names) - 1) :
              parseNat(names[k].id) < parseNat(names[k + 1].id)
        /\ \A i \in 1..Len(metadata) :
              Qualifies(metadata[i], contextualQuery)
                  <=> \E k \in 1..Len(names) : names[k] = EntryOf(i)

StartsWithAnyCase(q, word) ==
    Len(q) >= Len(word) /\ toLowerCase(SubSeq(q, 1, Len(word))) = word

HasQuestionMark(q) == \E i \in 1..Len(q) : CharAt(q, i) = "?"

FoldExpected(q) ==
    \/ Len(q) < 60
    \/ StartsWithAnyCase(q, "why")
    \/ StartsWithAnyCase(q, "how")
    \/ ~HasQuestionMark(q)

\* The last 4 turns of h, all of them when h has fewer.
LastTurns(h) ==
    LET n == IF Len(h) < 4 THEN Len(h) ELSE 4
    IN  [i \in 1..n |-> h[Len(h) - n + i]]

\* The contents of the turns, one space between two of them.
RECURSIVE SpacedContents(_)
SpacedContents(turns) ==
    IF Len(turns) = 0 THEN ""
    ELSE IF Len(turns) = 1 THEN turns[1].content
    ELSE turns[1].content \o " " \o SpacedContents(Tail(turns))

\* C14: the history is folded into the query exactly when the question has
\* fewer than 60 characters, or starts with "why" or "how" in any letter case,
\* or has no question mark; the folded query is the contents of the last 4
\* turns (fewer if the history is shorter), a space and the question, the same
\* for every history that ends with these turns; otherwise the query is the
\* question, whatever the history.
C14_FoldsHistory ==
    Called =>
        /\ FoldExpected(question) =>
              /\ contextualQuery
                    = SpacedContents(LastTurns(history)) \o " " \o question
              /\ \A h \in FoldHistories :
                    LastTurns(h) = LastTurns(history)
                        => contextualQueryOf(question, h) = contextualQuery
        /\ ~FoldExpected(question) =>
              /\ contextualQuery = question
              /\ \A h \in FoldHistories : contextualQueryOf(question, h) = question

\* A question of 60 characters or more with a question mark, folded because it
\* starts with "HOW", into a history of more than 4 turns.
C14_Witness ==
    /\ Called
    /\ Len(history) > 4
    /\ Len(question) >= 60
    /\ HasQuestionMark(question)
    /\ StartsWithAnyCase(question, "how")
    /\ contextualQuery # question

-----------------------------------------------------------------------------
(* Claims about the branches of findRelevantContext (SpecRetrieval).       *)

\* The call is in Branch A or returned from it.
InBranchA == rpc \in {"A", "rankedA"} \/ branch = "A"

\* The call is in Branch B or Branch C or returned from one of them.
InBranchBOrC ==
    rpc \in {"B", "rankedB", "C", "rankedC"} \/ branch \in {"B", "C", "null"}

\* C15: Branch A is entered exactly when the resolver returns at least 2
\* matches; with the same matches, a query text that contains "compare" and
\* one that contains neither "between" nor "compare" take the same branch.
C15_BranchAIffTwoMatches ==
    Called =>
        /\ InBranchA => Len(names) >= 2
        /\ InBranchBOrC => Len(names) < 2
        /\ rpc # "done" => (InBranchA \/ InBranchBOrC)
        /\ entersBranchA("compare them", names) <=> entersBranchA("who", names)

\* A call whose query text is comparative and has one match is in Branch B.
C15_Witness ==
    /\ rpc = "B"
    /\ Len(names) = 1
    /\ includes(toLowerCase(contextualQuery), "compare")

\* The matches, by position in names, whose document has chunks in the corpus.
YieldingMatches ==
    {m \in 1..Len(names) : CandidatesOf(documentNameOf(names[m].id)) # {}}

\* The position in names of the match of block j.
MatchOf(j) ==
    IF \E m \in 1..Len(names) : names[m].id = contexts[j].interviewId
    THEN CHOOSE m \in 1..Len(names) : names[m].id = contexts[j].interviewId
    ELSE 0

BlockHeader(j) ==
    "Interview " \o contexts[j].interviewId \o " with " \o contexts[j].interviewee
    \o " (" \o contexts[j].date \o "):"

BlockLine(c) == "[Page " \o c.page \o "] " \o c.text

\* Where block j of the context str ends: before the header of block j + 1.
BlockEnd(str, j) ==
    IF j < Len(contexts) THEN firstIndexOf(str, BlockHeader(j + 1)) ELSE Len(str) + 1

\* C16: when Branch A runs and k >= 2 of the matched documents yield chunks,
\* the context returned has exactly k blocks in match order, one per such
\* document: one "Interview <id> with <name>" header, then the chunks returned
\* for that document as "[Page p]" lines in rank order, none of them a chunk
\* of another document.
C16_BranchABlocks ==
    (Ended /\ branch = "A" /\ Cardinality(YieldingMatches) >= 2) =>
        LET str == result.value
            k == Cardinality(YieldingMatches)
        IN  /\ result.kind = "string"
            /\ Len(contexts) = k
            /\ countOf(str, "Interview ") = k
            /\ countOf(str, "\n\n---\n\n") = k - 1
            /\ \A j \in 1..k : MatchOf(j) \in YieldingMatches
            /\ \A j \in 1..(k - 1) :
                  /\ MatchOf(j) < MatchOf(j + 1)
                  /\ firstIndexOf(str, BlockHeader(j)) < firstIndexOf(str, BlockHeader(j + 1))
            /\ firstIndexOf(str, BlockHeader(1)) = 1
            /\ \A j \in 1..k :
                  LET content == contexts[j].content
                      doc == documentNameOf(contexts[j].interviewId)
                      sc == findSimilarContent(embedLog[MatchOf(j)].vector, doc)
                  IN  /\ names[MatchOf(j)].record.name = contexts[j].interviewee
                      /\ countOf(str, BlockHeader(j)) = 1
                      /\ Len(content) = Len(sc)
                      /\ \A i \in 1..Len(content) :
                            /\ content[i].text = sc[i].text
                            /\ content[i].page = sc[i].metadata.page
                            /\ sc[i].metadata.source = doc
                            /\ countOf(str, BlockLine(content[i])) = 1
                            /\ firstIndexOf(str, BlockLine(content[i]))
                                  > firstIndexOf(str, BlockHeader(j))
                            /\ firstIndexOf(str, BlockLine(content[i])) < BlockEnd(str, j)
                      /\ \A i \in 1..(Len(content) - 1) :
                            firstIndexOf(str, BlockLine(content[i]))
                                < firstIndexOf(str, BlockLine(content[i + 1]))
            /\ countOf(str, "[Page ")
                  = Cardinality({<<j, i>> \in (1..k) \X (1..TopK) :
                                    i <= Len(contexts[j].content)})

\* Branch A returned two blocks, the first of 2 chunks or more and the second
\* of 3 chunks or more.
C16_Witness ==
    /\ Ended
    /\ branch = "A"
    /\ Cardinality(YieldingMatches) = 2
    /\ Len(contexts) = 2
    /\ Len(contexts[1].content) >= 2
    /\ Len(contexts[2].content) >= 3

\* C17: once initialize has completed, no step of a retrieval or of a chat
\* request changes the corpus store: embeddings, texts, chunkMetadata and the
\* registry keep their contents and their order.
C17_CorpusImmutable ==
    [][initStatus = "resolved" =>
          /\ embeddings' = embeddings
          /\ texts' = texts
          /\ chunkMetadata' = chunkMetadata
          /\ metadata' = metadata]_vars

\* A retrieval ranked the whole corpus in an order that is not the corpus
\* order, and returned.
C17_Witness ==
    /\ initStatus = "resolved"
    /\ Ended
    /\ branch = "C"
    /\ Len(similarContent) >= 2
    /\ similarContent[1].text # texts[1]

-----------------------------------------------------------------------------
(* Claims about the ingestion script, continued (SpecIngest).              *)

\* C18: during generateEmbeddings at most 20 embedding requests are in flight
\* at any moment, and requests are issued only when no request of an earlier
\* batch is still in flight, whether those succeeded or failed.
C18_BoundedBatches ==
    /\ [](inFlight <= 20)
    /\ [][inFlight' > inFlight => inFlight = 0]_vars

\* The second batch is in flight after a first batch of 20 requests, one of
\* which the provider rejected.
C18_Witness ==
    /\ gpc = "awaitAll"
    /\ batchStart = 20
    /\ inFlight >= 2
    /\ \E k \in embedFails : k <= 20

-----------------------------------------------------------------------------
(* Claims about the branches of findRelevantContext, continued             *)
(* (SpecRetrieval).                                                        *)

\* Exactly one record matches and its document has no chunk in the corpus.
SingleMatchWithoutChunks ==
    /\ Called
    /\ Len(names) = 1
    /\ CandidatesOf(documentNameOf(names[1].id)) = {}

\* C19: when exactly one record matches and the ranking restricted to its
\* document returns no chunk, the retrieval goes on to Branch C: it makes a
\* second embedding call for the same query text and returns exactly what
\* Branch C returns for that query over the whole corpus.
C19_FallsThroughToBranchC ==
    (SingleMatchWithoutChunks /\ ~ProviderFailed) =>
        /\ rpc = "rankedB" =>
              (Len(embedLog) = 1 /\ similarContent = <<>> /\ result = NoResult)
        /\ (Len(embedLog) = 1 /\ rpc # "rankedB") =>
              (rpc = "C" /\ embedCalls = 2 /\ result = NoResult)
        /\ Len(embedLog) = 2 => rpc \in {"rankedC", "done"}
        /\ rpc = "done" =>
              /\ Len(embedLog) = 2
              /\ embedCalls = 2
              /\ embedLog[1].input = contextualQuery
              /\ embedLog[2].input = contextualQuery
              /\ similarContent = findSimilarContent(embedLog[2].vector, "")
              /\ result = branchCResult(similarContent)
              /\ branch \in {"C", "null", "catch"}

\* Such a retrieval returned the context Branch C built from another
\* document's chunks.
C19_Witness ==
    /\ SingleMatchWithoutChunks
    /\ Ended
    /\ Len(embedLog) = 2
    /\ branch = "C"
    /\ result.kind = "string"
    /\ Len(similarContent) >= 2

-----------------------------------------------------------------------------
(* Claims about the chat handler, continued (Spec).                        *)

\* C20: in every reachable state, under every interleaving of chat requests,
\* each stored session history has even length and alternates roles, starting
\* with a user turn: user, assistant, user, assistant, ...
C20_HistoriesAlternate ==
    \A sid \in SessionIds :
        LET h == sessions[sid]
        IN  /\ Len(h) % 2 = 0
            /\ \A i \in 1..Len(h) :
                  h[i].role = IF i % 2 = 1 THEN "user" ELSE "assistant"

\* A session holds two exchanges, the second stored by a request, and another
\* request of the session has failed.
C20_Witness ==
    \E sid \in SessionIds :
        /\ Len(sessions[sid]) = 4
        /\ Len(writers[sid]) >= 1
        /\ \E r \in Requests : cpc[r] = "failed" /\ body[r].sessionId = sid

-----------------------------------------------------------------------------
(* Claims about the chat handler and the chat_messages log (Spec).         *)

\* The rows of the log that store the turn under the session id.
RowsOf(sid, turn) ==
    {k \in 1..Len(chatLog) : chatLog[k] = row(sid, turn.role, turn.content)}

\* The request is past the await of its user-row insert.
PastUserInsert(r) ==
    cpc[r] \in {"retrieving", "completing", "insertingAssistant", "responded"}

\* C21: in every reachable state each turn held in a session history is in
\* the chat_messages log with the same session id, role and content, as many
\* times at least as the history holds it; a request's user row is in the log
\* once retrieval has started, and the two rows of a request are in the log,
\* the user row first, once it has updated the session map.
C21_SessionTurnsLogged ==
    /\ \A sid \in SessionIds :
          \A i \in 1..Len(sessions[sid]) :
              Cardinality(RowsOf(sid, sessions[sid][i]))
                  >= Cardinality(PositionsOf(sessions[sid], sessions[sid][i]))
    /\ \A r \in Requests :
          PastUserInsert(r) => RowsOf(body[r].sessionId, userTurn(r)) # {}
    /\ \A r \in Requests :
          cpc[r] = "responded" =>
              \E k \in RowsOf(body[r].sessionId, userTurn(r)) :
                  \E m \in RowsOf(body[r].sessionId, assistantTurn(r)) :
                      /\ k < m
                      /\ PositionsOf(sessions[body[r].sessionId], userTurn(r)) # {}
                            => PositionsOf(sessions[body[r].sessionId],
                                           assistantTurn(r)) # {}

\* Two requests of one session have both updated the map, the second from a
\* history read before the first one's update: the map holds the turns of one
\* of them and the log the rows of both.
C21_Witness ==
    \E sid \in SessionIds :
        /\ Len(writers[sid]) = 2
        /\ Len(sessions[sid]) >= 2
        /\ Len(chatLog) > Len(sessions[sid])
        /\ \E r \in Requests :
              /\ cpc[r] = "responded"
              /\ body[r].sessionId = sid
              /\ PositionsOf(sessions[sid], userTurn(r)) = {}

-----------------------------------------------------------------------------
(* Claims about ensureCompleteResponse (SpecComplete).                     *)

\* The request holds the text that ensureCompleteResponse returned.
Completed(r) == cpc[r] \in {"insertingAssistant", "responded"}

EndsWithEllipsis(text) ==
    Len(text) >= 3 /\ SubSeq(text, Len(text) - 2, Len(text)) = "..."

\* C22: for every input text, the text that ensureCompleteResponse returns
\* does not end with three or more consecutive periods.
C22_NoTrailingEllipsis ==
    \A r \in Requests :
        Completed(r) =>
            /\ response[r] = ensureCompleteResponse(completion[r])
            /\ ~EndsWithEllipsis(response[r])

-----------------------------------------------------------------------------
(* Claims about the ways findRelevantContext ends (SpecRetrieval).         *)

\* C23: on a corpus that initialize loaded without error, a call of
\* findRelevantContext that is over has returned a context string, or
\* returned the no-context marker, or thrown because an embedding-provider
\* call was rejected; it has not thrown for any other reason.
C23_EndsInThreeWays ==
    (initStatus = "resolved" /\ Ended) =>
        \/ result.kind = "string" /\ ~ProviderFailed
        \/ result.kind = "null" /\ ~ProviderFailed
        \/ result.kind = "throw" /\ ProviderFailed

====
